---- MODULE Spec2Model ----
(***************************************************************************)
(* python_minifier.compat: PythonSourceCompatibility, the visitor that     *)
(* walks a parsed module and reports the (minimum, maximum) Python version *)
(* whose grammar accepts it, and find_syntax_versions, its one-shot        *)
(* wrapper.                                                                *)
(*                                                                         *)
(* A syntax-tree node is a record                                          *)
(*   [kind  |-> the node's class name,                                     *)
(*    attrs |-> the names of its truthy non-node attributes,               *)
(*    kids  |-> its child nodes in ast.iter_fields order, each with the    *)
(*              name of the field that holds it]                           *)
(* A version is a pair <<major, minor>>, compared as Python compares       *)
(* tuples.  The recursion of visit / generic_visit is kept as an explicit  *)
(* stack of frames, so that every handler is one step of the model.        *)
(***************************************************************************)
EXTENDS Integers, Sequences, FiniteSets

VARIABLES
    host,     \* sys.version_info of the running interpreter: <<major, minor, micro>>
    obj,      \* the PythonSourceCompatibility object: _min_version, _max_version, f_string_nesting
    calls,    \* number of __call__ invocations made on obj
    pc,       \* "idle" (no call in progress) or "running" (inside self.visit(module))
    stack,    \* pending frames of the traversal, innermost first
    tree,     \* the argument of the latest __call__
    result,   \* outcome of the latest __call__
    entry,    \* history: obj as it was when the latest __call__ was entered
    visited,  \* history: nodes dispatched by visit() in this call, with the nesting seen on entry
    floors    \* history: versions passed to set_minimum in this call

vars == <<host, obj, calls, pc, stack, tree, result, entry, visited, floors>>

\* ---------------------------------------------------------------- bounds

\* deepest chain of nested formatted-string literals among the input trees
MaxNest == 5
\* longest module body built from the representative statements
MaxBody == 2
\* most calls made on one detector object
MaxCalls == 2

\* -------------------------------------------------------------- versions

\* Python's tuple comparison a < b on pairs
Lt(a, b) == a[1] < b[1] \/ (a[1] = b[1] /\ a[2] < b[2])

Le(a, b) == a = b \/ Lt(a, b)

\* interpreters the analysis may run on (sys.version_info[0..2])
Hosts == { <<2, 7, 18>>, <<3, 1, 5>>, <<3, 12, 1>> }

\* ----------------------------------------------------------------- trees

Nd(k, ks) == [kind |-> k, attrs |-> {}, kids |-> ks]

NdA(k, as, ks) == [kind |-> k, attrs |-> as, kids |-> ks]

Ch(f, n) == [field |-> f, node |-> n]

Name == Nd("Name", <<>>)

PassStmt == Nd("Pass", <<>>)

ExprStmt(v) == Nd("Expr", <<Ch("value", v)>>)

\* f"{ <v> }": a formatted-string literal with one replacement field
FStr(v) == Nd("JoinedStr", <<Ch("values", Nd("FormattedValue", <<Ch("value", v)>>))>>)

\* f"{x:{ <v> }}": <v> sits in the format specifier of the replacement field
FStrSpec(v) ==
    Nd("JoinedStr", <<Ch("values", Nd("FormattedValue",
        <<Ch("value", Name), Ch("format_spec", FStr(v))>>))>>)

\* n formatted-string literals nested through the value expression; the
\* innermost holds the literal part `inner` directly among its values
RECURSIVE FChain(_, _)
FChain(n, inner) ==
    IF n = 1 THEN Nd("JoinedStr", <<Ch("values", inner)>>)
    ELSE FStr(FChain(n - 1, inner))

Arg(ann) == Nd("arg", ann)

Arguments(ks) == Nd("arguments", ks)

FunctionDef(args, body, tps) ==
    Nd("FunctionDef", <<Ch("args", Arguments(args))>> \o body \o tps)

AsyncFunctionDef(body) ==
    Nd("AsyncFunctionDef", <<Ch("args", Arguments(<<>>))>> \o body)

NamedExpr == Nd("NamedExpr", <<Ch("target", Name), Ch("value", Name)>>)

TypeVar == Nd("TypeVar", <<>>)

Repr == Nd("Repr", <<Ch("value", Name)>>)

Match(body) == Nd("Match", <<Ch("subject", Name)>> \o body)

Comprehension(as) ==
    ExprStmt(Nd("ListComp", <<Ch("elt", Name),
        Ch("generators", NdA("comprehension", as, <<Ch("target", Name), Ch("iter", Name)>>))>>))

Literals == { Nd("Str", <<>>), Nd("Bytes", <<>>), Nd("Constant", <<>>) }

\* statements each appearing alone in a module body
Singles ==
    { PassStmt, ExprStmt(Name), ExprStmt(NamedExpr), ExprStmt(Repr),
      ExprStmt(Nd("BinOp", <<Ch("left", Name), Ch("op", Nd("MatMult", <<>>)), Ch("right", Name)>>)),
      Nd("AnnAssign", <<Ch("target", Name), Ch("annotation", Name)>>),
      ExprStmt(Nd("YieldFrom", <<Ch("value", Name)>>)),
      ExprStmt(Nd("Await", <<Ch("value", Name)>>)),
      Nd("AsyncFor", <<Ch("target", Name), Ch("iter", Name), Ch("body", PassStmt)>>),
      Nd("AsyncWith", <<Ch("items", Nd("withitem", <<Ch("context_expr", Name)>>)), Ch("body", PassStmt)>>),
      Nd("TryStar", <<Ch("body", PassStmt), Ch("handlers", Nd("ExceptHandler", <<Ch("body", PassStmt)>>))>>),
      Nd("TypeAlias", <<Ch("name", Name), Ch("type_params", Nd("TypeVarTuple", <<>>)), Ch("value", Name)>>),
      Nd("TypeAlias", <<Ch("name", Name), Ch("type_params", Nd("ParamSpec", <<>>)), Ch("value", Name)>>),
      Comprehension({}), Comprehension({"is_async"}),
      \* def f(): nonlocal x
      FunctionDef(<<>>, <<Ch("body", Nd("Nonlocal", <<>>))>>, <<>>),
      \* a hand-built node whose class is named `nonlocal`
      FunctionDef(<<>>, <<Ch("body", Nd("nonlocal", <<>>))>>, <<>>),
      \* async def f(): match x: ...
      AsyncFunctionDef(<<Ch("body", Match(<<>>))>>),
      \* def f[T](): await x
      FunctionDef(<<>>, <<Ch("body", ExprStmt(Nd("Await", <<Ch("value", Name)>>)))>>,
                  <<Ch("type_params", TypeVar)>>),
      FunctionDef(<<Ch("posonlyargs", Arg(<<>>))>>, <<>>, <<>>),
      FunctionDef(<<Ch("kwonlyargs", Arg(<<>>))>>, <<>>, <<>>),
      FunctionDef(<<Ch("varargannotation", Name)>>, <<>>, <<>>),
      FunctionDef(<<Ch("kwargannotation", Name)>>, <<>>, <<>>),
      FunctionDef(<<Ch("args", Arg(<<>>))>>, <<>>, <<>>) }
    \cup { FunctionDef(<<Ch("args", Arg(<<Ch("annotation", a)>>))>>, <<>>, <<>>) :
             a \in {Name, NamedExpr, TypeVar} }
    \cup { ExprStmt(FStrSpec(v)) : v \in {Name, NamedExpr, TypeVar} }
    \cup { ExprStmt(FChain(n, l)) : n \in 1..MaxNest, l \in Literals }
    \cup { ExprStmt(FChain(n, Nd("FormattedValue", <<Ch("value", Name)>>))) : n \in 1..MaxNest }

\* Python 3 statements combined into longer bodies
Reps ==
    { PassStmt, AsyncFunctionDef(<<>>), Match(<<>>),
      FunctionDef(<<>>, <<>>, <<Ch("type_params", TypeVar)>>),
      ExprStmt(FChain(MaxNest, Nd("Str", <<>>))) }

RECURSIVE Bodies(_)
Bodies(n) ==
    IF n = 0 THEN { <<>> }
    ELSE Bodies(n - 1) \cup { <<s>> \o b : s \in Reps, b \in { c \in Bodies(n - 1) : Len(c) = n - 1 } }

Module(stmts) == Nd("Module", [i \in 1..Len(stmts) |-> Ch("body", stmts[i])])

\* Python 2 bodies around a backquote expression
LegacyBodies == { <<PassStmt, ExprStmt(Repr)>>, <<ExprStmt(Repr), PassStmt>> }

Modules ==
    { Module(b) : b \in Bodies(MaxBody) \cup LegacyBodies }
    \cup { Module(<<s>>) : s \in Singles }

\* roots that are not a module
NonModules == { Name, ExprStmt(Repr), AsyncFunctionDef(<<>>), FChain(1, Nd("Str", <<>>)) }

Trees == Modules \cup NonModules

NoTree == Nd("<none>", <<>>)

\* ---------------------------------------------------- the detector object

\* __init__: the interval and the nesting counter of a new object
NewDetector(h) == [min |-> <<2, 7>>, max |-> <<h[2], h[3]>>, nesting |-> 0]

\* set_minimum(major, minor) on object state o
SetMinimum(o, v) ==
    LET lo == IF Lt(o.min, v) THEN v ELSE o.min
    IN  [o EXCEPT !.min = lo, !.max = IF Lt(o.max, v) THEN v ELSE o.max]

\* the mistaken boundary `... >= 4`
ExceedsNestingOffByOne(depth) == depth >= 4

\* the comparison `... > 4` of visit_JoinedStr, visit_Str and visit_Bytes
ExceedsNesting(depth) == depth > 4

\* the precondition left out
IsModuleUnchecked(n) == TRUE

\* assert isinstance(module, ast.Module)
IsModule(n) == n.kind = "Module"

\* the visit_<name> methods the class defines
VisitorMethods ==
    { "JoinedStr", "FormattedValue", "Str", "Bytes", "NamedExpr", "MatMult",
      "AnnAssign", "arguments", "arg", "YieldFrom", "nonlocal",
      "AsyncFunctionDef", "Await", "AsyncFor", "AsyncWith", "Match", "Repr",
      "comprehension", "TryStar", "TypeVar", "TypeVarTuple", "ParamSpec" }

\* NodeVisitor.visit: the method named 'visit_' + the node's class name,
\* generic_visit when the object has none
MethodFor(n) == IF n.kind \in VisitorMethods THEN n.kind ELSE "generic_visit"

VisitFrame(n) == [op |-> "visit", node |-> n]

\* the rest of visit_JoinedStr, run when generic_visit(node) has returned
AfterFrame(n) == [op |-> "after", node |-> n]

FramesOf(ks) == [i \in 1..Len(ks) |-> VisitFrame(ks[i].node)]

\* NodeVisitor.generic_visit: visit every child node, field by field
GenericVisit(n) == FramesOf(n.kids)

\* the loop of visit_FormattedValue: every child but those of format_spec
VisitButFormatSpec(n) == FramesOf(SelectSeq(n.kids, LAMBDA c : c.field # "format_spec"))

\* getattr(node, f, <falsy>) is truthy: the field holds a node or a non-empty list
HasField(n, f) == \E i \in 1..Len(n.kids) : n.kids[i].field = f

NoResult == [kind |-> "none", pinned |-> FALSE, low |-> <<0, 0>>, high |-> <<0, 0>>]

\* the AssertionError of __call__
AssertionError == [kind |-> "error", pinned |-> FALSE, low |-> <<0, 0>>, high |-> <<0, 0>>]

\* return self._min_version, self._max_version
IntervalResult(o) == [kind |-> "pair", pinned |-> FALSE, low |-> o.min, high |-> o.max]

\* return v.version, v.version
PinResult(v) == [kind |-> "pair", pinned |-> TRUE, low |-> v, high |-> v]

Init ==
    /\ host \in Hosts
    /\ obj = NewDetector(host)
    /\ calls = 0
    /\ pc = "idle"
    /\ stack = <<>>
    /\ tree = NoTree
    /\ result = NoResult
    /\ entry = NewDetector(host)
    /\ visited = <<>>
    /\ floors = {}

\* ------------------------------------------------------------- traversal

Top == Head(stack).node

\* visit() is about to call the method m on the node on top of the stack
Dispatched(m) ==
    /\ pc = "running"
    /\ stack # <<>>
    /\ Head(stack).op = "visit"
    /\ MethodFor(Top) = m

Seen == Append(visited, [kind |-> Top.kind, nesting |-> obj.nesting])

\* the handler leaves the object as o, has raised the floors fl and goes on
\* to visit `frames` before what was pending
Goto(o, frames, fl) ==
    /\ obj' = o
    /\ stack' = frames \o Tail(stack)
    /\ visited' = Seen
    /\ floors' = floors \cup fl
    /\ UNCHANGED <<host, calls, pc, tree, result, entry>>

\* a stored version in place of the raise: the traversal goes on
StoreVersion(o, v, fl) ==
    /\ obj' = [o EXCEPT !.min = v, !.max = v]
    /\ stack' = GenericVisit(Top) \o Tail(stack)
    /\ visited' = Seen
    /\ floors' = floors \cup fl
    /\ UNCHANGED <<host, calls, pc, tree, result, entry>>

\* raise self.Version(v): no frame between the handler and __call__ catches
\* it, so every pending frame is dropped and __call__ returns v, v
RaiseVersion(o, v, fl) ==
    /\ obj' = o
    /\ stack' = <<>>
    /\ pc' = "idle"
    /\ result' = PinResult(v)
    /\ visited' = Seen
    /\ floors' = floors \cup fl
    /\ UNCHANGED <<host, calls, tree, entry>>

\* set_version(major, minor)
SetVersion(v) == RaiseVersion(obj, v, {})

\* the handlers of the shape: self.set_minimum(...); self.generic_visit(node)
MinimumThenGeneric(v) == Goto(SetMinimum(obj, v), GenericVisit(Top), {v})

visit_JoinedStr ==
    /\ Dispatched("JoinedStr")
    /\ LET o1 == SetMinimum(obj, <<3, 6>>)
           o2 == [o1 EXCEPT !.nesting = @ + 1]
       IN  IF ExceedsNesting(o2.nesting)
           THEN RaiseVersion(o2, <<3, 12>>, {<<3, 6>>})
           ELSE Goto(o2, GenericVisit(Top) \o <<AfterFrame(Top)>>, {<<3, 6>>})

\* self.f_string_nesting -= 1, after generic_visit(node) of visit_JoinedStr
leave_JoinedStr ==
    /\ pc = "running"
    /\ stack # <<>>
    /\ Head(stack).op = "after"
    /\ obj' = [obj EXCEPT !.nesting = @ - 1]
    /\ stack' = Tail(stack)
    /\ UNCHANGED <<host, calls, pc, tree, result, entry, visited, floors>>

visit_FormattedValue ==
    /\ Dispatched("FormattedValue")
    /\ Goto(obj, VisitButFormatSpec(Top), {})

visit_Str ==
    /\ Dispatched("Str")
    /\ IF ExceedsNesting(obj.nesting + 1)
       THEN RaiseVersion(obj, <<3, 12>>, {})
       ELSE Goto(obj, <<>>, {})

visit_Bytes ==
    /\ Dispatched("Bytes")
    /\ IF ExceedsNesting(obj.nesting + 1)
       THEN RaiseVersion(obj, <<3, 12>>, {})
       ELSE Goto(obj, <<>>, {})

visit_NamedExpr == Dispatched("NamedExpr") /\ MinimumThenGeneric(<<3, 8>>)

visit_MatMult == Dispatched("MatMult") /\ MinimumThenGeneric(<<3, 5>>)

visit_AnnAssign == Dispatched("AnnAssign") /\ MinimumThenGeneric(<<3, 6>>)

visit_arguments ==
    /\ Dispatched("arguments")
    /\ LET f1 == IF HasField(Top, "posonlyargs") THEN {<<3, 8>>} ELSE {}
           f2 == IF \/ HasField(Top, "kwonlyargs")
                    \/ HasField(Top, "varargannotation")
                    \/ HasField(Top, "kwargannotation")
                 THEN {<<3, 0>>} ELSE {}
           o1 == IF f1 = {} THEN obj ELSE SetMinimum(obj, <<3, 8>>)
           o2 == IF f2 = {} THEN o1 ELSE SetMinimum(o1, <<3, 0>>)
       IN  Goto(o2, GenericVisit(Top), f1 \cup f2)

visit_arg ==
    /\ Dispatched("arg")
    /\ IF HasField(Top, "annotation")
       THEN Goto(SetMinimum(obj, <<3, 0>>), <<>>, {<<3, 0>>})
       ELSE Goto(obj, <<>>, {})

visit_YieldFrom == Dispatched("YieldFrom") /\ MinimumThenGeneric(<<3, 3>>)

visit_nonlocal == Dispatched("nonlocal") /\ MinimumThenGeneric(<<3, 0>>)

visit_AsyncFunctionDef == Dispatched("AsyncFunctionDef") /\ MinimumThenGeneric(<<3, 5>>)

visit_Await == Dispatched("Await") /\ MinimumThenGeneric(<<3, 5>>)

visit_AsyncFor == Dispatched("AsyncFor") /\ MinimumThenGeneric(<<3, 5>>)

visit_AsyncWith == Dispatched("AsyncWith") /\ MinimumThenGeneric(<<3, 5>>)

visit_Match == Dispatched("Match") /\ MinimumThenGeneric(<<3, 10>>)

visit_Repr == Dispatched("Repr") /\ SetVersion(<<2, 7>>)

visit_comprehension ==
    /\ Dispatched("comprehension")
    /\ IF "is_async" \in Top.attrs
       THEN MinimumThenGeneric(<<3, 6>>)
       ELSE Goto(obj, GenericVisit(Top), {})

visit_TryStar == Dispatched("TryStar") /\ MinimumThenGeneric(<<3, 11>>)

visit_TypeVar == Dispatched("TypeVar") /\ SetVersion(<<3, 12>>)

visit_TypeVarTuple == Dispatched("TypeVarTuple") /\ SetVersion(<<3, 12>>)

visit_ParamSpec == Dispatched("ParamSpec") /\ SetVersion(<<3, 12>>)

\* a node whose class has no visit_ method
generic_visit == Dispatched("generic_visit") /\ Goto(obj, GenericVisit(Top), {})

\* ----------------------------------------------------------------- calls

\* __call__(module) on an object in state o, up to self.visit(module)
Enter(o, t) ==
    /\ tree' = t
    /\ entry' = o
    /\ obj' = o
    /\ visited' = <<>>
    /\ floors' = {}
    /\ IF IsModule(t)
       THEN pc' = "running" /\ stack' = <<VisitFrame(t)>> /\ result' = NoResult
       ELSE pc' = "idle" /\ stack' = <<>> /\ result' = AssertionError
    /\ UNCHANGED host

\* find_syntax_versions(module): a new object, called once
FindSyntaxVersions ==
    /\ pc = "idle"
    /\ calls' = 1
    /\ \E t \in Trees : Enter(NewDetector(host), t)

\* the same object called again
Call ==
    /\ pc = "idle"
    /\ calls < MaxCalls
    /\ calls' = calls + 1
    /\ \E t \in Trees : Enter(obj, t)

\* self.visit(module) has returned: return self._min_version, self._max_version
Return ==
    /\ pc = "running"
    /\ stack = <<>>
    /\ pc' = "idle"
    /\ result' = IntervalResult(obj)
    /\ UNCHANGED <<host, obj, calls, stack, tree, entry, visited, floors>>

Next ==
    \/ FindSyntaxVersions
    \/ Call
    \/ Return
    \/ visit_JoinedStr
    \/ leave_JoinedStr
    \/ visit_FormattedValue
    \/ visit_Str
    \/ visit_Bytes
    \/ visit_NamedExpr
    \/ visit_MatMult
    \/ visit_AnnAssign
    \/ visit_arguments
    \/ visit_arg
    \/ visit_YieldFrom
    \/ visit_nonlocal
    \/ visit_AsyncFunctionDef
    \/ visit_Await
    \/ visit_AsyncFor
    \/ visit_AsyncWith
    \/ visit_Match
    \/ visit_Repr
    \/ visit_comprehension
    \/ visit_TryStar
    \/ visit_TypeVar
    \/ visit_TypeVarTuple
    \/ visit_ParamSpec
    \/ generic_visit

Spec == Init /\ [][Next]_vars

\* ------------------------------------------------- vocabulary of the claims

VMax(a, b) == IF Lt(a, b) THEN b ELSE a

MaxOf(S) == CHOOSE v \in S : \A w \in S : Le(w, v)

\* the host version: the (major, minor) pair of the running interpreter
HostVersion == <<host[1], host[2]>>

RECURSIVE AllNodes(_)
AllNodes(n) == {n} \cup UNION { AllNodes(n.kids[i].node) : i \in 1..Len(n.kids) }

KindsIn(t) == { n.kind : n \in AllNodes(t) }

\* a call has returned a pair of versions
Returned == pc = "idle" /\ result.kind = "pair"

\* the latest call was the first one made on its detector object
FirstCall == calls = 1

TypeParamKinds == { "TypeVar", "TypeVarTuple", "ParamSpec" }

\* the node kinds of the rule table
RuleKinds ==
    { "Repr", "JoinedStr", "Str", "Bytes", "NamedExpr", "MatMult", "AnnAssign",
      "arguments", "arg", "YieldFrom", "Nonlocal", "AsyncFunctionDef", "Await",
      "AsyncFor", "AsyncWith", "Match", "comprehension", "TryStar" } \cup TypeParamKinds

\* the floors the rule table gives node n
RuleFloors(n) ==
    (IF n.kind \in {"JoinedStr", "AnnAssign"} THEN {<<3, 6>>} ELSE {})
    \cup (IF n.kind = "NamedExpr" THEN {<<3, 8>>} ELSE {})
    \cup (IF n.kind \in {"MatMult", "AsyncFunctionDef", "Await", "AsyncFor", "AsyncWith"}
          THEN {<<3, 5>>} ELSE {})
    \cup (IF n.kind = "arguments" /\ HasField(n, "posonlyargs") THEN {<<3, 8>>} ELSE {})
    \cup (IF /\ n.kind = "arguments"
             /\ \/ HasField(n, "kwonlyargs")
                \/ HasField(n, "varargannotation")
                \/ HasField(n, "kwargannotation")
          THEN {<<3, 0>>} ELSE {})
    \cup (IF n.kind = "arg" /\ HasField(n, "annotation") THEN {<<3, 0>>} ELSE {})
    \cup (IF n.kind = "YieldFrom" THEN {<<3, 3>>} ELSE {})
    \cup (IF n.kind = "Nonlocal" THEN {<<3, 0>>} ELSE {})
    \cup (IF n.kind = "Match" THEN {<<3, 10>>} ELSE {})
    \cup (IF n.kind = "comprehension" /\ "is_async" \in n.attrs THEN {<<3, 6>>} ELSE {})
    \cup (IF n.kind = "TryStar" THEN {<<3, 11>>} ELSE {})

\* the version a visited node pins, given the nesting counter it was met with
Pins(e) ==
    IF e.kind = "Repr" THEN {<<2, 7>>}
    ELSE IF e.kind \in TypeParamKinds THEN {<<3, 12>>}
    ELSE IF e.kind \in {"JoinedStr", "Str", "Bytes"} /\ e.nesting + 1 > 4 THEN {<<3, 12>>}
    ELSE {}

\* module whose one statement is n nested formatted-string literals, the
\* innermost holding a plain string literal
NestedFStrings(n) == Module(<<ExprStmt(FChain(n, Nd("Str", <<>>)))>>)

AsyncWithMatch == Module(<<AsyncFunctionDef(<<Ch("body", Match(<<>>))>>)>>)

\* ----------------------------------------------------------------- claims

\* C1: on a new detector, a traversal without a pin returns low = the
\* maximum of (2,7) and the floors raised, high = the maximum of the starting
\* ceiling and the floors raised; an async function holding a match
\* statement gives low = (3,10), high = max(host version, (3,10)).
C1_IntervalFromFloorsAndHost ==
    (Returned /\ FirstCall /\ ~result.pinned) =>
        /\ result.low = MaxOf({<<2, 7>>} \cup floors)
        /\ result.high = MaxOf({entry.max} \cup floors)
        /\ tree = AsyncWithMatch =>
               /\ result.low = <<3, 10>>
               /\ result.high = VMax(HostVersion, <<3, 10>>)

\* C2: every returned pair has low <= high, pinned or not, on every host,
\* also when no rule fired.
C2_LowAtMostHigh == Returned => Le(result.low, result.high)

\* C3: a module holding none of the rule table's kinds yields exactly
\* ((2,7), host version), the host version being (major, minor).
C3_PlainTreeGivesHostVersion ==
    (Returned /\ FirstCall /\ KindsIn(tree) \cap RuleKinds = {}) =>
        /\ ~result.pinned
        /\ result.low = <<2, 7>>
        /\ result.high = HostVersion

\* C4: the low returned is >= (2,7) and >= the floor of every floor-raising
\* rule whose node is anywhere in the tree (in a format specifier, in a
\* parameter's annotation, before or after a pinning node).
C4_LowCoversEveryFloorPresent ==
    (Returned /\ FirstCall) =>
        /\ Le(<<2, 7>>, result.low)
        /\ \A n \in AllNodes(tree) : \A f \in RuleFloors(n) : Le(f, result.low)

\* C5: a type-parameter declaration anywhere in the module, under any
\* parent, makes the result exactly ((3,12),(3,12)).
C5_TypeParamAnywherePins ==
    (Returned /\ FirstCall /\ KindsIn(tree) \cap TypeParamKinds # {}) =>
        /\ result.low = <<3, 12>>
        /\ result.high = <<3, 12>>

C7_EveryCallStartsFresh ==
    tree # NoTree =>
        /\ entry.nesting = 0
        /\ entry.min = <<2, 7>>
        /\ entry.max = NewDetector(host).max

\* C8: a call whose root is not a module raises the precondition failure
\* before any node is visited, returns no pair and leaves the detector's
\* interval and nesting counter as they were.
C8_NonModuleRootRaises ==
    /\ [](tree # NoTree /\ tree.kind # "Module" =>
            /\ pc = "idle"
            /\ result.kind = "error"
            /\ stack = <<>>
            /\ visited = <<>>)
    /\ [][(calls >= 1 /\ calls' = calls + 1 /\ tree'.kind # "Module") => obj' = obj]_vars
    /\ [][(calls' = 1 /\ tree'.kind # "Module") => obj' = NewDetector(host)]_vars

\* a reused detector with a raised floor refuses a non-module root
C8_Witness ==
    /\ tree.kind = "AsyncFunctionDef"
    /\ result.kind = "error"
    /\ calls = 2
    /\ obj.min = <<3, 10>>

\* C9: a Nonlocal node reached by the traversal, with no pin, yields
\* low >= (3,0).
C9_NonlocalRaisesFloor ==
    (/\ Returned /\ FirstCall /\ ~result.pinned
     /\ \E i \in 1..Len(visited) : visited[i].kind = "Nonlocal")
        => Le(<<3, 0>>, result.low)

\* C10: the first pinning node the traversal reaches ends it at once: it is
\* the last node visited, nothing stays pending, and the call returns
\* (v, v) for its version whatever floor and ceiling were accumulated; a
\* module holding only a legacy string conversion yields ((2,7),(2,7)).
C10_PinStopsTraversal ==
    /\ \A i \in 1..Len(visited) : \A v \in Pins(visited[i]) :
           /\ i = Len(visited)
           /\ pc = "idle"
           /\ stack = <<>>
           /\ result.kind = "pair"
           /\ result.low = v
           /\ result.high = v
    /\ (Returned /\ tree = Module(<<ExprStmt(Repr)>>)) =>
           result.low = <<2, 7>> /\ result.high = <<2, 7>>

\* a type parameter pins (3,12) after an async function raised the floor
C10_Witness ==
    /\ Returned /\ FirstCall
    /\ tree = Module(<<AsyncFunctionDef(<<>>),
                       FunctionDef(<<>>, <<>>, <<Ch("type_params", TypeVar)>>)>>)
    /\ visited[Len(visited)].kind = "TypeVar"
    /\ obj.min = <<3, 5>>
    /\ result.low = <<3, 12>>
    /\ result.high = <<3, 12>>

====
